---- MODULE Spec2Model ----
(***************************************************************************)
(* Model of filizer-cli's scan pipeline (src/main.py): process_directory   *)
(* walks a directory tree and drives every file through                    *)
(*   exists -> get_md5 -> GET (validation) -> execute_action -> exists     *)
(*          -> payload -> POST (submission)                                *)
(* one file at a time.  The registry, the operator at the prompt, the      *)
(* filesystem's errors and an external process removing files are the      *)
(* environment: their choices are nondeterministic.                        *)
(***************************************************************************)
EXTENDS Integers, Sequences, FiniteSets, TLC

(***************************************************************************)
(* Bounds of the model and constants of the program.                       *)
(***************************************************************************)
\* Longest list of matches the registry returns in one validation response.
MaxMatches == 2
\* Number of files an external process may remove during one scan.
MaxVanish == 1
\* Retry(total=3): retries allowed after the first attempt of a request.
RetryTotal == 3

(***************************************************************************)
(* The scanned tree.  A directory or a file is the sequence of names from  *)
(* the scan root down to it; os.walk lists directories and files by bare   *)
(* name.                                                                   *)
(*     top/f1    top/x/b/f3                                                *)
(***************************************************************************)
RootDir == <<"top">>

Dirs == {<<"top">>, <<"top", "x">>, <<"top", "x", "b">>}

Files == {<<"top", "f1">>, <<"top", "x", "b", "f3">>}

\* A path outside the scanned tree (a destination the registry may name).
OutPath == <<"out", "g">>

\* Path.name: the bare name of a path.
Name(p) == p[Len(p)]

\* Path.parent
Parent(p) == SubSeq(p, 1, Len(p) - 1)

\* The order in which a directory listing returns names.
ListingOrder == <<"b", "f1", "f3", "x">>

\* The names of ListingOrder from position i on that are in the set S, in order.
RECURSIVE Listed(_, _)
Listed(S, i) ==
    IF i > Len(ListingOrder) THEN <<>>
    ELSE IF ListingOrder[i] \in S THEN <<ListingOrder[i]>> \o Listed(S, i + 1)
    ELSE Listed(S, i + 1)

\* [d for d in dirs if d not in excludes]
RECURSIVE NotExcluded(_, _)
NotExcluded(dirs, excl) ==
    IF dirs = <<>> THEN <<>>
    ELSE IF Head(dirs) \notin excl THEN <<Head(dirs)>> \o NotExcluded(Tail(dirs), excl)
    ELSE NotExcluded(Tail(dirs), excl)

\* Mutant: the filtered list is bound to a new name, so os.walk's own list is
\* left as it was and nothing is pruned.
KeptDirs_Unfiltered(dirs, excl) == dirs

\* The subdirectories os.walk keeps for recursion: the listing is filtered
\* only when the exclusion list is not empty.
KeptDirs(dirs, excl) == IF excl # {} THEN NotExcluded(dirs, excl) ELSE dirs

\* The exclusion lists a scan may be given (as sets of bare names).
ExcludeChoices == {{}, {"x"}, {"b"}, {"top"}}

(***************************************************************************)
(* What the registry may send back.                                        *)
(***************************************************************************)
Actions == {"", "cp", "mv", "rm", "RM", "zip"}

\* str.lower() on the strings of the model.
Lower(s) ==
    CASE s = "RM" -> "rm"
      [] s = "Y" -> "y"
      [] OTHER -> s

\* The matches the registry may return for file f: full_path is f's own
\* path or another one; cp and mv name a destination, f's own path included.
Matches(f) ==
    [full_path : {f, OutPath}, action : {"cp", "mv"}, action_args : {f, OutPath}]
    \cup [full_path : {f, OutPath}, action : Actions \ {"cp", "mv"},
          action_args : {OutPath}]

\* The matches that may follow the first one in a response: their full_path
\* is the file's own path or another one, their action one of two.
LaterMatches(f) ==
    [full_path : {f, OutPath}, action : {"cp", "rm"}, action_args : {OutPath}]

\* Sequences over S of length at most n.
SeqUpTo(S, n) == UNION {[1..k -> S] : k \in 0..n}

\* The lists of at most n matches the registry may return for file f.
MatchLists(f, n) ==
    {<<>>} \cup {<<m>> \o rest : m \in Matches(f),
                                 rest \in SeqUpTo(LaterMatches(f), n - 1)}

\* The bodies of a response: "nojson" does not parse as JSON, "object" is JSON
\* but no list, "scalars" is a non-empty list whose elements are no objects,
\* "list" is a list of match objects.
Bodies(f) ==
    {[kind |-> "list", items |-> l] : l \in MatchLists(f, MaxMatches)}
    \cup {[kind |-> k, items |-> <<>>] : k \in {"nojson", "object", "scalars"}}

\* What one attempt of a request may end in: the status of an HTTP response,
\* or no response at all (0: timeout, connection error).
GetStatuses == {0, 200, 401, 404, 500, 503}

PostStatuses == {0, 200, 401, 500, 503}

\* The responses with a given status that the validation of file f may get:
\* any body with 200, no JSON or an empty list with an error status.
GetResponses(f, status) ==
    {[status |-> status, body |-> b] :
        b \in IF status = 200
              THEN Bodies(f)
              ELSE {[kind |-> k, items |-> <<>>] : k \in {"nojson", "list"}}}

\* What the operator may type at the deletion prompt ("EOF": end of input).
ConfirmInputs == {"y", "Y", "n", "", "yes", "EOF"}

VARIABLES
    \* the scan's arguments
    dry_run, force, excludes, root_is_dir,
    \* the filesystem: the files of the tree that exist
    exists,
    \* os.walk: directories still to visit, the directory being visited and the
    \* names of its listing not yet iterated
    stack, current_dir, files,
    \* process_directory's position and locals
    pc, file_path, is_duplicate, is_exact_path_match, remote_action, remote_args,
    stats, duplicate_parents,
    \* the retrying session: retries already used by the request in progress,
    \* and the status of the response it handed back (0: none)
    retries, res_status,
    \* the exception that ended the process, if any
    error,
    \* history of the file taken last (cleared when the next one is taken): what
    \* was typed at the prompt, the operation carried out on the file, whether
    \* the filesystem failed the operation, the POST requests the registry
    \* answered for the file, the answer to the latest attempt of a request
    \* for the file (0: none), what the registry sent as the file's validation
    \* response, whether the action step wrote a destination file
    confirm, done_op, fs_failed, posts, last_status, received, dst_written,
    \* history of the scan, per file: how its processing went, whether get_md5
    \* was called on it, whether its validation got a 200 response with a JSON
    \* body the match statement could classify, whether that response held a
    \* match with the file's own path, whether the file was counted as failed,
    \* the Submit operations started, the files on which a copy, move or delete
    \* was carried out
    outcome, hashed, succeeded, own_matched, failed_for, submits, acted,
    \* whether the registry ever answered 401, whether the summary was logged,
    \* the number of files removed by the external process
    saw401, reported, vanished

vars == <<dry_run, force, excludes, root_is_dir, exists, stack, current_dir, files,
          pc, file_path, is_duplicate, is_exact_path_match, remote_action,
          remote_args, stats, duplicate_parents, retries, res_status, error, confirm,
          done_op, fs_failed, posts, last_status, received, dst_written, outcome,
          hashed,
          succeeded, own_matched, failed_for, submits, acted, saw401, reported,
          vanished>>

config == <<dry_run, force, excludes, root_is_dir>>
walk == <<stack, current_dir, files>>
locals == <<is_duplicate, is_exact_path_match, remote_action, remote_args,
            res_status>>
iteration == <<confirm, done_op, fs_failed, posts, last_status, received,
               dst_written>>
history == <<outcome, hashed, succeeded, own_matched, failed_for, submits, acted,
             saw401, reported>>

NoFile == <<>>

\* No validation response was parsed for the file (yet).
NoAnswer ==
    [status |-> 0, kind |-> "none", empty |-> TRUE, own_pos |-> 0, action |-> "",
     action_args |-> NoFile]

Init ==
    /\ dry_run \in BOOLEAN
    /\ force \in BOOLEAN
    /\ excludes \in ExcludeChoices
    /\ root_is_dir \in BOOLEAN
    /\ exists = Files
    /\ stack = <<>>
    /\ current_dir = RootDir
    /\ files = <<>>
    /\ pc = "start"
    /\ file_path = NoFile
    /\ is_duplicate = FALSE
    /\ is_exact_path_match = FALSE
    /\ remote_action = ""
    /\ remote_args = NoFile
    /\ stats = [new |-> 0, duplicate |-> 0, path_match |-> 0, failed |-> 0,
                actions_taken |-> 0]
    /\ duplicate_parents = {}
    /\ retries = 0
    /\ res_status = 0
    /\ error = "none"
    /\ confirm = "none"
    /\ done_op = "none"
    /\ fs_failed = FALSE
    /\ posts = 0
    /\ last_status = 0
    /\ received = NoAnswer
    /\ dst_written = FALSE
    /\ outcome = [f \in Files |-> "none"]
    /\ hashed = {}
    /\ succeeded = {}
    /\ own_matched = {}
    /\ failed_for = {}
    /\ submits = <<>>
    /\ acted = {}
    /\ saw401 = FALSE
    /\ reported = FALSE
    /\ vanished = 0

(***************************************************************************)
(* Helpers of the per-file loop.                                           *)
(***************************************************************************)
\* stats[k] += 1
Incr(st, k) == [st EXCEPT ![k] = @ + 1]

\* `continue`, or the end of the loop body: back to the for statement.  The
\* locals of the iteration are dead from here on (161-163 set them again for
\* the next file that is hashed), so the model clears them here; file_path
\* keeps its value until the for statement binds it again.
NextIteration ==
    /\ pc' = "walk"
    /\ is_duplicate' = FALSE
    /\ is_exact_path_match' = FALSE
    /\ remote_action' = ""
    /\ remote_args' = NoFile
    /\ res_status' = 0
    /\ retries' = 0

\* status_forcelist, and an attempt that got no response: what Retry retries.
StatusForcelist == {500, 502, 503, 504}

\* Mutant: the session has no status_forcelist, so an error response is handed
\* back to the caller.
Retryable_NoForcelist(status) == status = 0

Retryable(status) == status = 0 \/ status \in StatusForcelist

\* Mutant: only the first match is compared with the file's path.
AnyFullPath_FirstOnly(items, path) == items # <<>> /\ items[1].full_path = path

\* any(i.get("full_path") == str(file_path) for i in items)
AnyFullPath(items, path) == \E i \in 1..Len(items) : items[i].full_path = path

\* Mutant: the exact path match is not looked at before the submission.
SkipSubmit_IgnoresPathMatch == dry_run \/ file_path \notin exists

\* Mutant: the file's existence is not checked again after the action.
SkipSubmit_NoExistsCheck == dry_run \/ is_exact_path_match

\* if dry_run or not file_path.exists() or is_exact_path_match: continue
SkipSubmit == dry_run \/ file_path \notin exists \/ is_exact_path_match

(***************************************************************************)
(* process_directory: the walk.                                            *)
(***************************************************************************)
\* if not root_path.is_dir(): return
Start ==
    /\ pc = "start"
    /\ IF root_is_dir
       THEN pc' = "walk" /\ stack' = <<RootDir>>
       ELSE pc' = "invalid" /\ stack' = stack
    /\ UNCHANGED <<config, exists, current_dir, files, file_path, locals, stats,
                   duplicate_parents, retries, error, iteration, history, vanished>>

\* The subdirectories of directory d, as os.walk lists them.
SubDirNames(d) == Listed({Name(s) : s \in {t \in Dirs : Parent(t) = d}}, 1)

\* The files of directory d that exist, as os.walk lists them.
FileNames(d) == Listed({Name(f) : f \in {g \in exists : Parent(g) = d}}, 1)

\* os.walk yields the next directory: its files as listed now, and its
\* subdirectories, which the loop body prunes before os.walk descends.
NextDir ==
    /\ pc = "walk"
    /\ files = <<>>
    /\ stack # <<>>
    /\ LET d == Head(stack)
           kept == KeptDirs(SubDirNames(d), excludes)
       IN /\ current_dir' = d
          /\ files' = FileNames(d)
          /\ stack' = [i \in 1..Len(kept) |-> d \o <<kept[i]>>] \o Tail(stack)
    /\ UNCHANGED <<config, exists, pc, file_path, locals, stats, duplicate_parents,
                   retries, error, iteration, history, vanished>>

\* for filename in files: file_path = current_dir / filename
NextFile ==
    /\ pc = "walk"
    /\ files # <<>>
    /\ file_path' = current_dir \o <<Head(files)>>
    /\ files' = Tail(files)
    /\ pc' = "exists"
    /\ confirm' = "none"
    /\ done_op' = "none"
    /\ fs_failed' = FALSE
    /\ posts' = 0
    /\ last_status' = 0
    /\ received' = NoAnswer
    /\ dst_written' = FALSE
    /\ UNCHANGED <<config, exists, stack, current_dir, locals, stats,
                   duplicate_parents, retries, error, history, vanished>>

\* The walk is over: the summary report.
Summary ==
    /\ pc = "walk"
    /\ files = <<>>
    /\ stack = <<>>
    /\ pc' = "done"
    /\ reported' = TRUE
    /\ UNCHANGED <<config, exists, walk, file_path, locals, stats, duplicate_parents,
                   retries, error, iteration, outcome, hashed, succeeded, own_matched,
                   failed_for, submits, acted, saw401, vanished>>

(***************************************************************************)
(* process_directory: one file.                                            *)
(***************************************************************************)
\* if not file_path.exists(): continue
CheckExists ==
    /\ pc = "exists"
    /\ IF file_path \in exists
       THEN /\ pc' = "hash"
            /\ UNCHANGED <<locals, retries, outcome>>
       ELSE /\ outcome' = [outcome EXCEPT ![file_path] = "skipped"]
            /\ NextIteration
    /\ UNCHANGED <<config, exists, walk, file_path, stats, duplicate_parents, error,
                   iteration, hashed, succeeded, own_matched, failed_for, submits,
                   acted, saw401, reported, vanished>>

\* if not md5_hash: stats['failed'] += 1; continue
HashFailed ==
    /\ stats' = Incr(stats, "failed")
    /\ failed_for' = failed_for \cup {file_path}
    /\ outcome' = [outcome EXCEPT ![file_path] = "hashfail"]
    /\ NextIteration

\* md5_hash = get_md5(file_path): None when the file cannot be opened or read.
GetMd5 ==
    /\ pc = "hash"
    /\ hashed' = hashed \cup {file_path}
    /\ \E ok \in BOOLEAN :
        /\ ok => file_path \in exists
        /\ IF ok
           THEN /\ pc' = "get"
                /\ retries' = 0
                /\ is_duplicate' = FALSE
                /\ is_exact_path_match' = FALSE
                /\ remote_action' = ""
                /\ remote_args' = NoFile
                /\ res_status' = 0
                /\ UNCHANGED <<stats, outcome, failed_for>>
           ELSE HashFailed
    /\ UNCHANGED <<config, exists, walk, file_path, duplicate_parents, error,
                   iteration, succeeded, own_matched, submits, acted, saw401,
                   reported, vanished>>

\* Mutant: one retry more than Retry(total) allows.
Attempt_OffByOne(status, n) ==
    IF Retryable(status)
    THEN IF n <= RetryTotal THEN "retry" ELSE "raise"
    ELSE "response"

\* What the session does with the answer to an attempt when n retries are used
\* up: send the request again, raise a RequestException (retries exhausted), or
\* hand the response to the caller.
Attempt(status, n) ==
    IF Retryable(status)
    THEN IF n < RetryTotal THEN "retry" ELSE "raise"
    ELSE "response"

\* Mutant: the cases look at the body only, whatever the status.
MatchCase_AnyStatus(r, path) ==
    IF r.body.kind = "nojson" THEN "raise"
    ELSE IF r.body.kind = "scalars" THEN "crash"
    ELSE IF r.body.kind = "list" /\ r.body.items # <<>>
         THEN IF AnyFullPath(r.body.items, path) THEN "path_match" ELSE "duplicate"
    ELSE "new"

\* match (res.status_code, res.json()): the case taken for response r of the
\* validation of the file at path.  res.json() raises a RequestException on a
\* body that is no JSON; items[0].get raises AttributeError on a list of
\* scalars; a status other than 200 and 401 matches no case.
MatchCase(r, path) ==
    IF r.body.kind = "nojson" THEN "raise"
    ELSE IF r.status = 200 /\ r.body.kind = "scalars" THEN "crash"
    ELSE IF r.status = 200 /\ r.body.kind = "list" /\ r.body.items # <<>>
         THEN IF AnyFullPath(r.body.items, path) THEN "path_match" ELSE "duplicate"
    ELSE IF r.status = 200 THEN "new"
    ELSE IF r.status = 401 THEN "auth"
    ELSE "unmatched"

\* Mutant: the except clause lacks its `continue` and falls through to the
\* action step.
ValidationFailed_FallsThrough ==
    /\ stats' = Incr(stats, "failed")
    /\ failed_for' = failed_for \cup {file_path}
    /\ outcome' = [outcome EXCEPT ![file_path] = "netfail"]
    /\ pc' = "action"
    /\ UNCHANGED <<locals, retries>>

\* except requests.exceptions.RequestException: stats['failed'] += 1; continue
ValidationFailed ==
    /\ stats' = Incr(stats, "failed")
    /\ failed_for' = failed_for \cup {file_path}
    /\ outcome' = [outcome EXCEPT ![file_path] = "netfail"]
    /\ NextIteration

\* Mutant: the name recorded is that of the scan root.
AddParent_Root(parents, dir) == parents \cup {Name(RootDir)}

\* duplicate_parents.add(current_dir.name)
AddParent(parents, dir) == parents \cup {Name(dir)}

\* Mutant: the action is taken from the last match of the list.
ActionSource_Last(items) == items[Len(items)]

\* items[0]: the match whose action and action_args are taken.
ActionSource(items) == items[1]

\* The position of the first match of items whose full_path is path (0: none).
OwnPos(items, path) ==
    LET own == {i \in DOMAIN items : items[i].full_path = path}
    IN IF own = {} THEN 0 ELSE CHOOSE i \in own : \A j \in own : i <= j

\* What the registry sent in response r to the validation of the file at path:
\* the status, the kind of body, whether its list of matches is empty, where in
\* the list the file's own path is, and the action of the match sent first.
Answer(r, path) ==
    [status |-> r.status,
     kind |-> r.body.kind,
     empty |-> r.body.kind = "list" /\ r.body.items = <<>>,
     own_pos |-> OwnPos(r.body.items, path),
     action |-> IF r.body.items = <<>> THEN "" ELSE r.body.items[1].action,
     action_args |-> IF r.body.items = <<>> THEN NoFile
                     ELSE r.body.items[1].action_args]

\* The validation of file f got response r: status 200 and a JSON body that
\* the match statement classifies.
Succeeds(r) == r.status = 200 /\ r.body.kind \in {"list", "object"}

\* Response r holds a match object whose full_path is path.
HoldsPath(r, path) ==
    /\ r.body.kind = "list"
    /\ path \in {r.body.items[i].full_path : i \in DOMAIN r.body.items}

\* 1. Validation (GET): one attempt of res = session.get(...).  The session
\* sends the request again, raises (the except clause counts the file as
\* failed), or hands the response back.
Validate ==
    /\ pc = "get"
    /\ \E status \in GetStatuses :
        /\ saw401' = (saw401 \/ status = 401)
        /\ last_status' = status
        /\ CASE Attempt(status, retries) = "retry" ->
                 /\ retries' = retries + 1
                 /\ UNCHANGED <<pc, locals, stats, outcome, failed_for>>
             [] Attempt(status, retries) = "raise" ->
                 ValidationFailed
             [] OTHER ->
                 /\ pc' = "match"
                 /\ res_status' = status
                 /\ UNCHANGED <<is_duplicate, is_exact_path_match, remote_action,
                                remote_args, retries, stats, outcome, failed_for>>
    /\ UNCHANGED <<config, exists, walk, file_path, duplicate_parents, error,
                   confirm, done_op, fs_failed, posts, received, dst_written, hashed,
                   succeeded, own_matched, submits, acted, reported, vanished>>

\* match (res.status_code, res.json()): the body is parsed and the case taken;
\* a RequestException goes to the except clause.
MatchResponse ==
    /\ pc = "match"
    /\ \E r \in GetResponses(file_path, res_status) :
        LET case == MatchCase(r, file_path)
        IN /\ received' = Answer(r, file_path)
           /\ succeeded' = IF Succeeds(r) THEN succeeded \cup {file_path}
                           ELSE succeeded
           /\ own_matched' = IF Succeeds(r) /\ HoldsPath(r, file_path)
                             THEN own_matched \cup {file_path} ELSE own_matched
           /\ CASE case = "raise" ->
                    /\ ValidationFailed
                    /\ UNCHANGED <<duplicate_parents, error>>
                [] case \in {"duplicate", "path_match"} ->
                    /\ is_duplicate' = TRUE
                    /\ duplicate_parents' = AddParent(duplicate_parents, current_dir)
                    /\ remote_action' = ActionSource(r.body.items).action
                    /\ remote_args' = ActionSource(r.body.items).action_args
                    /\ is_exact_path_match' = (case = "path_match")
                    /\ stats' = Incr(stats, case)
                    /\ outcome' = [outcome EXCEPT ![file_path] = case]
                    /\ pc' = "action"
                    /\ UNCHANGED <<res_status, retries, error, failed_for>>
                [] case = "crash" ->
                    /\ is_duplicate' = TRUE
                    /\ duplicate_parents' = AddParent(duplicate_parents, current_dir)
                    /\ error' = "AttributeError"
                    /\ outcome' = [outcome EXCEPT ![file_path] = "crash"]
                    /\ pc' = "crashed"
                    /\ UNCHANGED <<is_exact_path_match, remote_action, remote_args,
                                   res_status, stats, retries, failed_for>>
                [] case = "new" ->
                    /\ stats' = Incr(stats, "new")
                    /\ outcome' = [outcome EXCEPT ![file_path] = "new"]
                    /\ pc' = "action"
                    /\ UNCHANGED <<locals, duplicate_parents, retries, error,
                                   failed_for>>
                [] case = "auth" ->
                    /\ outcome' = [outcome EXCEPT ![file_path] = "auth"]
                    /\ pc' = "aborted"
                    /\ UNCHANGED <<locals, stats, duplicate_parents, retries, error,
                                   failed_for>>
                [] OTHER ->
                    /\ outcome' = [outcome EXCEPT ![file_path] = "unmatched"]
                    /\ pc' = "action"
                    /\ UNCHANGED <<locals, stats, duplicate_parents, retries, error,
                                   failed_for>>
    /\ UNCHANGED <<config, exists, walk, file_path, confirm, done_op, fs_failed,
                   posts, last_status, dst_written, hashed, submits, acted, saw401,
                   reported, vanished>>

\* Mutant: the answer is compared without lower().
Declined_CaseSensitive(frc, typed) == ~frc /\ (typed = "EOF" \/ typed # "y")

\* if not force: confirm = input(...); if confirm.lower() != 'y': return False
\* (input() raises EOFError at the end of input, which the except clause of
\* execute_action turns into False as well).
Declined(frc, typed) == ~frc /\ (typed = "EOF" \/ Lower(typed) # "y")

\* execute_action(action, args, current_path, force): what it does when the
\* operator types `typed` at the prompt and the filesystem lets the operation
\* through (fsok) or fails it.  op is the branch taken, prompted whether input()
\* was called, tried whether the filesystem operation was started, done the
\* value returned: every exception (an OSError of the operation,
\* shutil.SameFileError of a copy onto itself) is caught and gives False.  A
\* move onto the file's own path is a rename that succeeds and leaves the file
\* in place.  wrote is whether a file was written at the destination: by a
\* copy or move that succeeded, or by one that failed after shutil had
\* written a part or all of the destination (part), which nothing removes.
ExecuteAction(action, args, current_path, frc, typed, fsok, part) ==
    LET can == fsok /\ current_path \in exists
        writes == current_path \in exists /\ args # current_path /\ (fsok \/ part)
    IN CASE Lower(action) = "cp" ->
              [op |-> "cp", prompted |-> FALSE, tried |-> TRUE,
               done |-> can /\ args # current_path, wrote |-> writes]
         [] Lower(action) = "mv" ->
              [op |-> "mv", prompted |-> FALSE, tried |-> TRUE, done |-> can,
               wrote |-> writes]
         [] Lower(action) = "rm" ->
              IF Declined(frc, typed)
              THEN [op |-> "rm", prompted |-> TRUE, tried |-> FALSE, done |-> FALSE,
                    wrote |-> FALSE]
              ELSE [op |-> "rm", prompted |-> ~frc, tried |-> TRUE, done |-> can,
                    wrote |-> FALSE]
         [] OTHER ->
              [op |-> "none", prompted |-> FALSE, tried |-> FALSE, done |-> FALSE,
               wrote |-> FALSE]

\* The files of the tree that exist after operation op on src has succeeded.
ExistsAfter(op, src, dst) ==
    CASE op = "mv" -> (exists \ {src}) \cup ({dst} \cap Files)
      [] op = "rm" -> exists \ {src}
      [] OTHER -> exists

\* Mutant: the counter is incremented whenever the operation was started.
Counted_WhenTried(res) == res.tried

\* elif execute_action(...): stats['actions_taken'] += 1
Counted(res) == res.done

\* What may be typed when execute_action runs: something at the prompt of a
\* delete without force, nothing ("none") when there is no prompt.
Typed(action, frc) ==
    IF Lower(action) = "rm" /\ ~frc THEN ConfirmInputs ELSE {"none"}

\* if is_duplicate and remote_action:
WantsAction == is_duplicate /\ remote_action # ""

\* Mutant: the action is executed in preview mode too.
RunsAction_InPreview == WantsAction

\* if dry_run: (log only)  elif execute_action(...):
RunsAction == WantsAction /\ ~dry_run

\* 2. Remote Action Execution
RemoteAction ==
    /\ pc = "action"
    /\ pc' = "check"
    /\ IF RunsAction
       THEN \E typed \in Typed(remote_action, force), fsok \in BOOLEAN,
               part \in BOOLEAN :
              LET res == ExecuteAction(remote_action, remote_args, file_path, force,
                                       typed, fsok, part)
              IN /\ confirm' = IF res.prompted THEN typed ELSE "none"
                 /\ fs_failed' = (res.tried /\ ~res.done)
                 /\ dst_written' = res.wrote
                 /\ IF res.done
                    THEN /\ done_op' = res.op
                         /\ acted' = acted \cup {file_path}
                         /\ exists' = ExistsAfter(res.op, file_path, remote_args)
                    ELSE UNCHANGED <<done_op, acted, exists>>
                 /\ IF Counted(res)
                    THEN stats' = Incr(stats, "actions_taken")
                    ELSE stats' = stats
       ELSE UNCHANGED <<confirm, fs_failed, dst_written, stats, done_op, acted,
                        exists>>
    /\ UNCHANGED <<config, walk, file_path, locals, duplicate_parents, retries, error,
                   posts, last_status, received, outcome, hashed, succeeded,
                   own_matched, failed_for, submits, saw401, reported, vanished>>

\* 3. Data Submission: the test that skips it.
CheckSubmit ==
    /\ pc = "check"
    /\ IF SkipSubmit
       THEN NextIteration
       ELSE pc' = "payload" /\ UNCHANGED <<locals, retries>>
    /\ UNCHANGED <<config, exists, walk, file_path, stats, duplicate_parents, error,
                   iteration, history, vanished>>

\* payload = {..., "size": file_path.stat().st_size, ...}: stat() raises
\* FileNotFoundError when the file is gone, and the try statement around it
\* catches RequestException only.
BuildPayload ==
    /\ pc = "payload"
    /\ IF file_path \in exists
       THEN pc' = "post" /\ retries' = 0 /\ error' = error
       ELSE pc' = "crashed" /\ error' = "FileNotFoundError" /\ retries' = retries
    /\ UNCHANGED <<config, exists, walk, file_path, locals, stats, duplicate_parents,
                   iteration, history, vanished>>

\* Mutant: the failed submission is counted and then started over.
SubmitFailed_StartsOver ==
    /\ stats' = Incr(stats, "failed")
    /\ failed_for' = failed_for \cup {file_path}
    /\ pc' = "post"
    /\ retries' = 0
    /\ UNCHANGED locals

\* except requests.exceptions.RequestException: stats['failed'] += 1
SubmitFailed ==
    /\ stats' = Incr(stats, "failed")
    /\ failed_for' = failed_for \cup {file_path}
    /\ NextIteration

\* session.post(...): one attempt; the first one starts the Submit operation.
\* The response is not looked at.
Submit ==
    /\ pc = "post"
    /\ submits' = IF retries = 0
                  THEN Append(submits, [file |-> file_path, duplicate |-> is_duplicate])
                  ELSE submits
    /\ \E status \in PostStatuses :
        /\ saw401' = (saw401 \/ status = 401)
        /\ posts' = IF status # 0 THEN posts + 1 ELSE posts
        /\ last_status' = status
        /\ CASE Attempt(status, retries) = "retry" ->
                 /\ retries' = retries + 1
                 /\ UNCHANGED <<pc, locals, stats, failed_for>>
             [] Attempt(status, retries) = "raise" ->
                 SubmitFailed
             [] OTHER ->
                 /\ NextIteration
                 /\ UNCHANGED <<stats, failed_for>>
    /\ UNCHANGED <<config, exists, walk, file_path, duplicate_parents, error, confirm,
                   done_op, fs_failed, received, dst_written, outcome, hashed,
                   succeeded, own_matched, acted, reported, vanished>>

(***************************************************************************)
(* The environment: another process removes a file of the tree.            *)
(***************************************************************************)
Running == pc \notin {"done", "aborted", "crashed", "invalid"}

Vanish ==
    /\ Running
    /\ vanished < MaxVanish
    /\ \E f \in exists : exists' = exists \ {f}
    /\ vanished' = vanished + 1
    /\ UNCHANGED <<config, walk, pc, file_path, locals, stats, duplicate_parents,
                   retries, error, iteration, history>>

Next ==
    \/ Start
    \/ NextDir
    \/ NextFile
    \/ Summary
    \/ CheckExists
    \/ GetMd5
    \/ Validate
    \/ MatchResponse
    \/ RemoteAction
    \/ CheckSubmit
    \/ BuildPayload
    \/ Submit
    \/ Vanish

Spec == Init /\ [][Next]_vars

(***************************************************************************)
(* Properties.                                                             *)
(***************************************************************************)
\* A Submit operation was started for file f.
Submitted(f) == \E i \in DOMAIN submits : submits[i].file = f

\* The number of Submit operations started for file f.
SubmitCount(f) == Cardinality({i \in DOMAIN submits : submits[i].file = f})

\* The validation of file f was answered and classified, so that the loop
\* body went on to the action and submission steps.
Classified(f) == outcome[f] \in {"new", "duplicate", "path_match", "unmatched"}

\* C1: a file whose validation response holds a match with the file's own
\* full path is an exact path match, is treated as a duplicate (the flag that
\* drives the action step is set, its directory is in the duplicate-parent
\* set), and no Submit is ever issued for it.
C1_ExactPathMatchNotSubmitted ==
    \A f \in own_matched :
        /\ outcome[f] = "path_match"
        /\ Name(Parent(f)) \in duplicate_parents
        /\ ~Submitted(f)
        /\ (f = file_path => pc \notin {"payload", "post"})
        /\ (f = file_path /\ pc \in {"action", "check"} =>
              is_duplicate /\ is_exact_path_match)

\* C1 happens: a scan that is no preview ended, and a file that is still on
\* disk was an exact path match.
C1_Witness == pc = "done" /\ ~dry_run /\ own_matched \cap exists # {}

\* C2: in preview mode the scan carries out no copy, move or delete (every
\* missing file was removed by the external process), starts no Submit, sends
\* no POST and leaves actions_taken at 0.
C2_PreviewHasNoEffects ==
    dry_run =>
        /\ done_op = "none"
        /\ Cardinality(Files \ exists) = vanished
        /\ submits = <<>>
        /\ posts = 0
        /\ pc \notin {"payload", "post"}
        /\ stats.actions_taken = 0

\* C2 happens: in preview mode the registry asked for the deletion of a
\* duplicate that is on disk and no exact path match, and the action step is
\* over.
C2_Witness ==
    /\ dry_run
    /\ pc = "check"
    /\ WantsAction
    /\ Lower(remote_action) = "rm"
    /\ file_path \in exists
    /\ ~is_exact_path_match

\* C3: once the registry has answered a request with 401, no further file is
\* hashed and no further Submit is started.
C3_AuthFailureStopsScan ==
    [][saw401 => hashed' = hashed /\ submits' = submits]_vars

\* C4 as stated: new + duplicate is the number of files whose validation
\* succeeded, and no file counted there is counted under failed.
C4_NewPlusDuplicateIsValidated ==
    /\ stats.new + stats.duplicate = Cardinality(succeeded)
    /\ \A f \in failed_for : outcome[f] \notin {"new", "duplicate"}

\* C4 amended: new + duplicate + path_match is the number of files whose
\* validation succeeded; failed counts each failed file once; a file counted
\* in the sum is counted under failed only when a Submit was started for it,
\* and a file that failed at hashing or at validation is never in the sum.
C4_OutcomeCountersAreValidated ==
    /\ stats.new + stats.duplicate + stats.path_match = Cardinality(succeeded)
    /\ stats.failed = Cardinality(failed_for)
    /\ \A f \in failed_for \cap succeeded :
          Submitted(f) /\ outcome[f] \in {"new", "duplicate"}
    /\ \A f \in Files :
          outcome[f] \in {"hashfail", "netfail"} =>
              f \in failed_for /\ f \notin succeeded /\ ~Submitted(f)

\* C4 happens: a file was counted as an exact path match, and a file counted
\* in the sum was counted under failed as well.
C4_Witness == stats.path_match > 0 /\ failed_for \cap succeeded # {}

\* File f lies under a directory whose bare name is excluded; the directories
\* looked at are those from depth `from` on (1: the scan root).
UnderExcluded(f, from) == \E i \in from..(Len(f) - 1) : f[i] \in excludes

\* File f was never taken by the loop: not hashed, not validated, not
\* counted, not submitted.
Untouched(f) ==
    /\ f \notin hashed
    /\ outcome[f] = "none"
    /\ f \notin succeeded
    /\ f \notin failed_for
    /\ ~Submitted(f)
    /\ file_path # f

\* C5 as stated: a file under any directory with an excluded name, the scan
\* root included, is never hashed, validated or counted.
C5_ExcludedNeverProcessed ==
    \A f \in Files : UnderExcluded(f, 1) => Untouched(f)

\* C5 amended: a file under a directory below the scan root with an excluded
\* name, at any depth, is never hashed, validated or counted.
C5_ExcludedSubdirNeverProcessed ==
    \A f \in Files : UnderExcluded(f, 2) => Untouched(f)

\* C5 happens: the walk ended, it hashed a file, and a file on disk lies
\* under an excluded directory.
C5_Witness ==
    /\ pc = "done"
    /\ hashed # {}
    /\ \E f \in exists : UnderExcluded(f, 2)

\* An affirmative answer at the deletion prompt.
Affirmative(typed) == typed \in {"y", "Y"}

\* The step is the execution of a delete action on file_path.
DeleteStep ==
    /\ pc = "action"
    /\ pc' = "check"
    /\ RunsAction
    /\ Lower(remote_action) = "rm"

\* The step changes neither the files on disk nor actions_taken.
NothingDone == exists' = exists /\ stats'.actions_taken = stats.actions_taken

\* C6 as stated: a delete without force and without an affirmative answer
\* leaves the file and actions_taken; with force or an affirmative answer the
\* file is deleted.
C6_DeleteGate ==
    [][DeleteStep =>
          IF ~force /\ ~Affirmative(confirm')
          THEN NothingDone
          ELSE file_path \notin exists']_vars

\* C6 amended: as stated, except that with force or an affirmative answer
\* the file is deleted and actions_taken incremented unless the deletion
\* fails with a filesystem error, which leaves both as they were.
C6_DeleteGateUnlessFsError ==
    [][DeleteStep =>
          IF ~force /\ ~Affirmative(confirm')
          THEN NothingDone /\ done_op' = "none" /\ ~fs_failed'
          ELSE IF fs_failed'
               THEN NothingDone /\ done_op' = "none"
               ELSE /\ file_path \notin exists'
                    /\ done_op' = "rm"
                    /\ stats'.actions_taken = stats.actions_taken + 1]_vars

\* C6 happens: without force, the prompt for a file on disk met the end of
\* input and the file was left.
C6_Witness ==
    /\ pc = "check"
    /\ ~force
    /\ confirm = "EOF"
    /\ done_op = "none"
    /\ file_path \in exists

\* The step is CheckSubmit (the test before the submission).
CheckStep == pc = "check" /\ pc' # "check"

\* C7 as stated: a Submit is started only for a file that exists; after a
\* successful move or delete the submission is skipped, after a successful
\* copy it is not.
C7_SubmitOnlyIfStillThere ==
    [][/\ (submits' # submits => file_path \in exists)
       /\ (CheckStep /\ done_op \in {"mv", "rm"} => pc' # "payload")
       /\ (CheckStep /\ done_op = "cp" => pc' = "payload")]_vars

\* The step is BuildPayload (the size of the file is read).
PayloadStep == pc = "payload" /\ pc' # "payload"

\* C7 amended: the submission goes on exactly when, outside preview mode, the
\* file is found by the existence check after the action step and is no
\* exact path match, and again when its size is read; the Submit is started
\* by the POST that follows and by nothing else.  So after a successful
\* delete, or a successful move to another path, no Submit is started, and
\* after a successful copy, or a move onto the file's own path, it is started
\* exactly under those conditions.
C7_SubmitIffStillThere ==
    [][/\ (CheckStep =>
              (pc' = "payload" <=>
                  ~dry_run /\ file_path \in exists /\ ~is_exact_path_match))
       /\ (PayloadStep => (pc' = "post" <=> file_path \in exists))
       /\ (submits' # submits <=> pc = "post" /\ retries = 0 /\ vanished' = vanished)
       /\ (submits' # submits =>
              submits' = Append(submits, [file |-> file_path,
                                          duplicate |-> is_duplicate]))
       /\ (CheckStep /\ (done_op = "rm" \/ (done_op = "mv" /\ remote_args # file_path))
              => pc' # "payload")
       /\ (CheckStep /\ (done_op = "cp" \/ (done_op = "mv" /\ remote_args = file_path))
              => (pc' = "payload" <=> file_path \in exists /\ ~is_exact_path_match))
      ]_vars

\* C7 happens: a file was copied with success and then submitted.
C7_Witness == done_op = "cp" /\ Submitted(file_path) /\ file_path \in exists

FailsEarly(f) ==
    /\ outcome[f] \notin {"hashfail", "netfail"}
    /\ outcome'[f] \in {"hashfail", "netfail"}

\* C9: a file that fails at hashing or at validation increments failed by
\* one and no other counter, gets no action and no Submit, and the loop goes
\* on to the next file.
C9_EarlyFailureCountsOnce ==
    /\ [](\A f \in Files :
            outcome[f] \in {"hashfail", "netfail"} =>
                /\ ~Submitted(f)
                /\ f \in failed_for
                /\ (f = file_path =>
                      /\ pc \in {"walk", "done"}
                      /\ done_op = "none"
                      /\ confirm = "none"
                      /\ posts = 0))
    /\ [][\A f \in Files :
            FailsEarly(f) =>
                /\ f = file_path
                /\ stats' = [stats EXCEPT !.failed = @ + 1]
                /\ pc' = "walk"
                /\ exists' = exists
                /\ submits' = submits
                /\ duplicate_parents' = duplicate_parents]_vars

\* C9 happens: a file failed at validation, and the file after it was
\* validated as new.
C9_Witness ==
    \E f \in Files :
        /\ outcome[f] = "netfail"
        /\ file_path \in Files \ {f}
        /\ outcome[file_path] = "new"
        /\ stats.failed = 1

\* C10: the removal of a file by the external process never ends the scan
\* with an exception.
C10_VanishNeverCrashes == error # "FileNotFoundError"

\* The step is one attempt of a Validate or of a Submit request.
AttemptStep == pc \in {"get", "post"} /\ vanished' = vanished

\* The step ends the operation in progress as a network-level failure: the
\* file is counted as failed and the loop goes on to the next file.
Surfaces ==
    /\ pc' = "walk"
    /\ stats' = [stats EXCEPT !.failed = @ + 1]
    /\ file_path \in failed_for'

\* C11 as stated: an operation sends its request at most 3 times, the first
\* attempt included, and the third attempt answered by 500/502/503/504
\* surfaces as a network-level failure.
C11_ThreeAttempts ==
    [][AttemptStep =>
          /\ retries + 1 <= 3
          /\ (last_status' \in StatusForcelist /\ retries + 1 = 3 => Surfaces)]_vars

\* C11 amended: an operation sends its request at most RetryTotal + 1 = 4
\* times, the first attempt included; an attempt answered by 500/502/503/504
\* is followed by another one as long as fewer than RetryTotal retries are
\* used, and changes no counter; the attempt after the last retry, answered
\* so, surfaces as a network-level failure.
C11_FourAttempts ==
    [][AttemptStep =>
          /\ retries + 1 <= RetryTotal + 1
          /\ (last_status' \in StatusForcelist =>
                IF retries < RetryTotal
                THEN pc' = pc /\ retries' = retries + 1 /\ stats' = stats
                ELSE Surfaces)]_vars

\* C11 happens: the registry answered every request of a Submit, the last
\* with an error of the forcelist, and the file was counted as failed.
C11_Witness ==
    /\ pc = "walk"
    /\ last_status \in StatusForcelist
    /\ posts = RetryTotal + 1
    /\ file_path \in failed_for

\* The files whose processing ended with outcome o.
WithOutcome(o) == {f \in Files : outcome[f] = o}

\* C12: every file whose validation was answered, and that was not skipped,
\* not failed at hashing or validation and not cut off by an authentication
\* abort, is counted under exactly one of new, duplicate, path_match, once,
\* whatever status and body the registry answered.
C12_ExactlyOneOutcomeCounter ==
    /\ \A f \in Files :
          outcome[f] \notin {"none", "skipped", "hashfail", "netfail", "auth"} =>
              outcome[f] \in {"new", "duplicate", "path_match"}
    /\ stats.new = Cardinality(WithOutcome("new"))
    /\ stats.duplicate = Cardinality(WithOutcome("duplicate"))
    /\ stats.path_match = Cardinality(WithOutcome("path_match"))

\* C13: a Submit is started only for a file whose validation succeeded and
\* classified it as new or duplicate, and its duplicate flag is that
\* classification: FALSE for a file counted as new, TRUE for a file counted as
\* duplicate; a file whose validation got no success response is never
\* submitted.
C13_SubmitCarriesClassification ==
    \A i \in DOMAIN submits :
        LET f == submits[i].file
        IN /\ f \in succeeded
           /\ outcome[f] \in {"new", "duplicate"}
           /\ submits[i].duplicate = (outcome[f] = "duplicate")

\* C14: when the registry answered the validation of a file with 200 and a
\* list of matches, the file is New exactly when the list is empty, Duplicate
\* or ExactPathMatch exactly when it is not, and ExactPathMatch exactly when
\* some match of the list, at any position, has the file's own full path.
C14_OutcomeFollowsList ==
    received.status = 200 /\ received.kind = "list" =>
        /\ (outcome[file_path] = "new" <=> received.empty)
        /\ (outcome[file_path] \in {"duplicate", "path_match"} <=> ~received.empty)
        /\ (outcome[file_path] = "path_match" <=> received.own_pos > 0)
        /\ (outcome[file_path] = "duplicate" <=>
               ~received.empty /\ received.own_pos = 0)

\* C14 happens: the only match with the file's own path was not the first of
\* the list, and the file was counted as an exact path match.
C14_Witness ==
    /\ received.status = 200
    /\ received.own_pos > 1
    /\ outcome[file_path] = "path_match"
    /\ stats.path_match = 1

\* The step is the action step of the file taken.
ActionStep == pc = "action" /\ pc' = "check"

\* C15: the action kept for a duplicate file is the action and action_args of
\* the first match of its validation response, wherever in the list the match
\* with the file's own path is; the operation carried out on the file is that
\* action, with those arguments, and no other; nothing is carried out for a
\* file classified New.
C15_FirstMatchAction ==
    /\ [](pc \in {"action", "check", "payload", "post"} /\ is_duplicate =>
            /\ ~received.empty
            /\ remote_action = received.action
            /\ remote_args = received.action_args)
    /\ [][ActionStep =>
            /\ (done_op' # "none" =>
                  /\ outcome[file_path] \in {"duplicate", "path_match"}
                  /\ done_op' = Lower(received.action)
                  /\ exists' = ExistsAfter(done_op', file_path, received.action_args))
            /\ (done_op' = "none" => exists' = exists)
            /\ (outcome[file_path] = "new" =>
                  /\ done_op' = "none"
                  /\ confirm' = "none"
                  /\ ~fs_failed'
                  /\ stats' = stats)]_vars

\* C15 happens: the match with the file's own path was not the first of the
\* list, and the operation of the first match was carried out on the file.
C15_Witness ==
    /\ pc = "check"
    /\ received.own_pos > 1
    /\ done_op = Lower(received.action)
    /\ done_op \in {"cp", "mv", "rm"}

\* The action step carries nothing out for one of these reasons: the action
\* kind is not recognized, the scan is a preview, the deletion was declined.
NotStarted ==
    \/ Lower(remote_action) \notin {"cp", "mv", "rm"}
    \/ dry_run
    \/ (confirm' # "none" /\ ~Affirmative(confirm'))

\* The action step changes no counter and no file of the scanned tree, and
\* records no operation as carried out.
NothingCarriedOut ==
    /\ done_op' = "none"
    /\ acted' = acted
    /\ stats' = stats
    /\ exists' = exists

\* C16 as stated: actions_taken is the number of files on which a copy, move
\* or delete was carried out with success; an action step with an
\* unrecognized action kind, a declined deletion, a filesystem error or in
\* preview mode leaves actions_taken and failed as they were and changes no
\* file, and the scan goes on from every action step.
C16_FailedActionChangesNoFile ==
    /\ [](stats.actions_taken = Cardinality(acted))
    /\ [][pc = "action" /\ vanished' = vanished =>
            /\ pc' = "check"
            /\ error' = error
            /\ stats'.failed = stats.failed
            /\ (NotStarted \/ fs_failed' => NothingCarriedOut /\ ~dst_written')
            /\ (done_op' # "none" =>
                  /\ acted' = acted \cup {file_path}
                  /\ file_path \notin acted
                  /\ stats'.actions_taken = stats.actions_taken + 1)]_vars

\* C16 amended: as stated, except that a copy or move that fails with a
\* filesystem error may have written the destination file before it failed;
\* the scanned file itself is left where it is, and a failed delete changes
\* no file.
C16_ActionsTakenCountsSuccesses ==
    /\ [](stats.actions_taken = Cardinality(acted))
    /\ [][pc = "action" /\ vanished' = vanished =>
            /\ pc' = "check"
            /\ error' = error
            /\ stats'.failed = stats.failed
            /\ (NotStarted => NothingCarriedOut /\ ~dst_written' /\ ~fs_failed')
            /\ (fs_failed' =>
                  /\ NothingCarriedOut
                  /\ (dst_written' => Lower(remote_action) \in {"cp", "mv"}))
            /\ (done_op' # "none" =>
                  /\ acted' = acted \cup {file_path}
                  /\ file_path \notin acted
                  /\ stats'.actions_taken = stats.actions_taken + 1)]_vars

\* C16 happens: an operation was carried out on one file, and the filesystem
\* failed the copy or move of the file after it, with the destination written.
C16_Witness ==
    /\ pc = "check"
    /\ fs_failed
    /\ dst_written
    /\ done_op = "none"
    /\ stats.actions_taken = 1
    /\ acted # {}

\* The step is the attempt of a Submit that makes it fail: the attempt after
\* the last retry, unanswered or answered by an error of the forcelist.
SubmitFails ==
    /\ pc = "post"
    /\ vanished' = vanished
    /\ retries = RetryTotal
    /\ Retryable(last_status')

\* C17: a Submit that fails increments failed by one and changes no other
\* counter, raises nothing, and sends the loop on to the next file; no Submit
\* is started again for a file whose Submit failed, and the outcome counted
\* for the file stays.
C17_SubmitFailureCountsOnce ==
    /\ [][SubmitFails =>
            /\ stats' = [stats EXCEPT !.failed = @ + 1]
            /\ pc' = "walk"
            /\ error' = error
            /\ submits' = submits
            /\ outcome' = outcome
            /\ duplicate_parents' = duplicate_parents]_vars
    /\ [][\A f \in failed_for :
            /\ (SubmitCount(f))' = SubmitCount(f)
            /\ outcome'[f] = outcome[f]
            /\ f \in failed_for']_vars
    /\ [][pc = "post" /\ vanished' = vanished /\ ~SubmitFails => stats' = stats]_vars

\* C17 happens: the Submit of a file counted as duplicate failed, and the
\* file after it was validated as new.
C17_Witness ==
    \E f \in failed_for :
        /\ Submitted(f)
        /\ outcome[f] = "duplicate"
        /\ file_path \in Files \ {f}
        /\ outcome[file_path] = "new"
        /\ stats = [new |-> 1, duplicate |-> 1, path_match |-> 0, failed |-> 1,
                    actions_taken |-> 0]

\* C18: a scan aborted by an authentication failure has reported its
\* counters and its duplicate-parent set (process_directory has returned when
\* pc is "aborted", so nothing is reported later), and the counters are those
\* of the files processed before the abort.
C18_AbortReportsPartialResults ==
    pc = "aborted" =>
        /\ reported
        /\ stats.new + stats.duplicate + stats.path_match
              = Cardinality(WithOutcome("new") \cup WithOutcome("duplicate")
                            \cup WithOutcome("path_match"))
        /\ stats.failed = Cardinality(failed_for)

\* The names of the directories that directly contain a file classified
\* Duplicate or ExactPathMatch so far.
DuplicateDirs ==
    {Name(Parent(f)) : f \in WithOutcome("duplicate") \cup WithOutcome("path_match")}

\* The step ends the processing of file f as new, failed, skipped, or without
\* a classification.
EndsAsNoDuplicate(f) ==
    /\ outcome[f] = "none"
    /\ outcome'[f] \in {"new", "hashfail", "netfail", "skipped", "unmatched", "auth"}

\* C19: as long as the process has not died of an exception raised inside the
\* classification itself (its locals no longer exist then), the
\* duplicate-parent set holds exactly the names of the directories that
\* directly contain a file classified Duplicate or ExactPathMatch so far, and
\* is empty exactly when duplicate + path_match is 0; a file that ends as new,
\* failed or skipped adds no name to it.
C19_DuplicateParentsAreDuplicateDirs ==
    /\ [](error # "AttributeError" =>
            /\ duplicate_parents = DuplicateDirs
            /\ (duplicate_parents = {} <=> stats.duplicate + stats.path_match = 0))
    /\ [][\A f \in Files :
            EndsAsNoDuplicate(f) => duplicate_parents' = duplicate_parents]_vars

\* C19 happens: the scan ended with a new file in the root and a duplicate in
\* a nested directory, whose name alone is in the set.
C19_Witness ==
    /\ pc = "done"
    /\ outcome[<<"top", "f1">>] = "new"
    /\ outcome[<<"top", "x", "b", "f3">>] \in {"duplicate", "path_match"}
    /\ duplicate_parents = {"b"}

====
